---- MODULE Spec2Model ----
(***************************************************************************)
(* Model of the AI Agent Orchestration Hub: the execution coordinator      *)
(* (src/api/orchestrator.py), the worker lifecycle (src/api/agents/        *)
(* base_agent.py and the three concrete agents), the shared session        *)
(* context store (src/api/memory.py) and the strategy validation of the    *)
(* HTTP boundary (src/api/main.py).                                        *)
(*                                                                         *)
(* One request is followed from its entry (POST /analyze, or a direct call *)
(* of Orchestrator.process_request) to its result.  Every await of the     *)
(* code is a step boundary: between two steps of one coroutine any other   *)
(* runnable coroutine, a deadline expiry, or a change of the networked     *)
(* backend's availability may happen.                                      *)
(***************************************************************************)
EXTENDS Naturals, Integers, Sequences, FiniteSets, TLC

(***************************************************************************)
(* Bounds of the model                                                     *)
(***************************************************************************)
\* how many times the networked backend changes availability during a request
MaxFlaps == 1
\* how many vocabulary words a query holds
MaxQueryWords == 2
\* how many store_context calls a client of the store makes
MaxPuts == 2
\* how many times the clock advances while a client uses the store
MaxTicks == 1
\* how many run calls a direct caller of the agents makes
MaxRuns == 2

(***************************************************************************)
(* Program constants                                                       *)
(***************************************************************************)
default_ttl == 3600
\* _generate_insights / _extract_insights return insights[:8]
max_insights == 8
\* all_insights[:10]
InsightCap == 10
total_agents == 3

Agents == {"data_analyst", "researcher", "copywriter"}
ExecutionModes == {"sequential", "parallel", "dynamic"}
SessionId == "s1"

\* Words a query is made of; the keyword tests of the code are substring tests
\* on the lower-cased query, modelled as membership of a word in the set of the
\* query's lower-cased words.
Vocabulary == {"QUICK", "detailed", "data", "market"}
\* POST /analyze rejects queries shorter than 3 characters: a query has a word
Queries == {q \in SUBSET Vocabulary : Cardinality(q) >= 1 /\ Cardinality(q) <= MaxQueryWords}
\* process_request called with a query that is no str (it has no .lower())
NotAStr == {"<not a str>"}
DirectQueries == Queries \cup {NotAStr}
IsStr(q) == q # NotAStr

BrevityKeywords == {"quick", "summary", "brief", "overview"}
DepthKeywords == {"detailed", "comprehensive", "thorough", "deep"}
DataKeywords == {"data", "statistics", "numbers", "kpi", "metrics"}
ContextKeywords == {"market", "trends", "research", "analysis", "industry"}

\* str.lower()
Lower(s) == IF s = "PARALLEL" THEN "parallel" ELSE IF s = "QUICK" THEN "quick" ELSE s
LowerQuery(q) == {Lower(w) : w \in q}

ContainsAny(query, keywords) == \E k \in keywords : k \in query

(***************************************************************************)
(* The execution_mode argument: None, a member of the ExecutionMode enum,  *)
(* or any other object (here: a plain string), which has no .value.        *)
(***************************************************************************)
NoneArg == [kind |-> "none", value |-> ""]
EnumArg(v) == [kind |-> "enum", value |-> v]
StrArg(s) == [kind |-> "str", value |-> s]
DirectArgs == {NoneArg} \cup {EnumArg(v) : v \in ExecutionModes} \cup {StrArg("turbo")}

\* Python truthiness of the argument in "execution_mode or ..."
Truthy(arg) == arg.kind = "enum" \/ (arg.kind = "str" /\ arg.value # "")

\* execution_mode.value exists only on enum members
HasValueAttrAlways(arg) == TRUE
HasValueAttr(arg) == arg.kind = "enum"

\* request.execution_mode of POST /analyze: Optional[str], None when the field
\* is absent; any string passes validation, the empty one included
NoMode == "<None>"
HttpModes == {NoMode, "", "sequential", "parallel", "dynamic", "PARALLEL", "turbo"}
\* "if request.execution_mode:" is false for None and for ""
ModeGiven(m) == m \notin {NoMode, ""}

\* Orchestrator._determine_execution_strategy
DetermineStrategyDepthFirst(q) ==
    IF ContainsAny(LowerQuery(q), DepthKeywords) THEN "sequential"
    ELSE IF ContainsAny(LowerQuery(q), BrevityKeywords) THEN "parallel"
    ELSE "sequential"

DetermineStrategy(q) ==
    IF ContainsAny(LowerQuery(q), BrevityKeywords) THEN "parallel"
    ELSE IF ContainsAny(LowerQuery(q), DepthKeywords) THEN "sequential"
    ELSE "sequential"

\* The concrete plan process_request / _execute_dynamic dispatch to
PlanForContextFirst(mode, q) ==
    IF mode = "sequential" THEN "sequential"
    ELSE IF mode = "parallel" THEN "parallel"
    ELSE IF ContainsAny(LowerQuery(q), ContextKeywords) THEN "research_first"
    ELSE IF ContainsAny(LowerQuery(q), DataKeywords) THEN "sequential"
    ELSE "parallel"

PlanFor(mode, q) ==
    IF mode = "sequential" THEN "sequential"
    ELSE IF mode = "parallel" THEN "parallel"
    ELSE IF ContainsAny(LowerQuery(q), DataKeywords) THEN "sequential"
    ELSE IF ContainsAny(LowerQuery(q), ContextKeywords) THEN "research_first"
    ELSE "parallel"

Order(p) ==
    IF p = "research_first" THEN <<"researcher", "data_analyst", "copywriter">>
    ELSE <<"data_analyst", "researcher", "copywriter">>

Stage1 == {"data_analyst", "researcher"}
Stage2Agent == "copywriter"

\* value of results["execution_mode"] a plan records when it runs to its end
PlanLabel(p) == IF p = "research_first" THEN "dynamic_research_first" ELSE p

TimeoutText == "Agent execution timeout"
\* str(asyncio.TimeoutError()): the exception carries no message
StrOfTimeoutError == ""
Absent == "<absent>"

\* the error a plan records when a worker call exceeds its deadline
TimeoutErrorEmpty(p) == StrOfTimeoutError
TimeoutError(p) == IF p = "research_first" THEN StrOfTimeoutError ELSE TimeoutText

(***************************************************************************)
(* State                                                                   *)
(***************************************************************************)
VARIABLES
    via,            \* "http" (POST /analyze) or "direct" (process_request called)
    request_mode,   \* request.execution_mode of the HTTP request
    mode_arg,       \* the execution_mode argument of process_request
    query,          \* the query
    cpc,            \* position of the request's coroutine
    execution_mode, \* process_request's local execution_mode
    plan,           \* "none", "sequential", "research_first", "parallel"
    idx,            \* position in Order(plan) of a sequential plan
    results,        \* results dict: per-agent entries (NoResult when absent)
    results_error,  \* results["error"] (Absent when not set)
    results_mode,   \* results["execution_mode"] (Absent when not set)
    response,       \* what the request returned to its caller
    status,         \* BaseAgent.status of each agent
    apc,            \* position of each agent's run coroutine
    ctx,            \* the context each run loaded
    res,            \* the result process() produced
    ret,            \* the result run() returned
    timedOut,       \* agents whose wait_for deadline expired
    redisUp,        \* the networked backend answers
    flaps,          \* availability changes so far
    redis_client,   \* MemoryManager.redis_client: "none" or "client"
    use_redis,      \* MemoryManager.use_redis
    redis,          \* contents of the networked backend
    in_memory_store,\* MemoryManager.in_memory_store
    expiry_times,   \* MemoryManager.expiry_times
    now,            \* datetime.now(), in seconds
    written,        \* keys whose store_context call returned True
    op,             \* the call a client of the store made that has just returned, with
                    \* its result, until the client goes on
    ticks,          \* how often the clock has advanced
    puts,           \* how many store_context calls the client has made
    writes,         \* how many store_context calls each agent's current run has made
    runs,           \* how many run calls a direct caller of the agents has made
    session_id,     \* BaseAgent.session_id of each agent object
    calls,          \* where each of two concurrent requests is in its plan
    outputs,        \* the agent outputs written: session of the key, agent, request
    loads,          \* the contexts loaded: session read, agent, request
    stored          \* what the client's successful store_context calls put and no
                    \* successful clear_context removed: value, time and ttl given,
                    \* and whether a clear_context that returned False was to remove it

reqVars == <<via, request_mode, mode_arg, query>>
coordVars == <<cpc, execution_mode, plan, idx, results, results_error, results_mode, response>>
agentVars == <<status, apc, ctx, res, ret, timedOut, writes, session_id>>
storeVars == <<redisUp, flaps, redis_client, use_redis, redis, in_memory_store, expiry_times, now, written>>
sharedVars == <<calls, outputs, loads>>
clientVars == <<op, ticks, puts, stored, runs, sharedVars>>
vars == <<reqVars, coordVars, agentVars, storeVars, clientVars>>

NoResult == [agent |-> "", status |-> "absent"]
\* a report or any other text, as its lines; "" is the empty sequence
EmptyText == << >>
NoResponse == [kind |-> "none", status |-> "none", mode |-> "", agents_completed |-> 0,
               fields |-> {}, query |-> {}, session_id |-> "", final_report |-> EmptyText,
               consolidated_insights |-> << >>]
NoOp == [name |-> "none"]
\* two requests served at the same time by the one Orchestrator, and their
\* session ids (uuid4 values)
Requests == {"r1", "r2"}
SessionOf(r) == IF r = "r1" THEN "s1" ELSE "s2"
\* BaseAgent.session_id before the first run
NoSession == ""
NoCall == [idx |-> 1, pc |-> "idle", sid |-> NoSession]
EmptyMap == [k \in {} |-> 0]

(***************************************************************************)
(* Context store (MemoryManager)                                           *)
(***************************************************************************)
Last(s) == s[Len(s)]

\* redis_key = f"session:{session_id}:{key}", as its ':'-separated segments
RedisKey(sid, key) == <<"session", sid>> \o key
OriginalQueryKey == <<"original_query">>
ExecutionModeKey == <<"execution_mode">>
\* store_agent_output: key f"agent_output:{agent_name}"
AgentOutputKeyShared(a) == <<"agent_output">>
AgentOutputKey(a) == <<"agent_output", a>>

\* pattern f"session:{session_id}:*"
MatchesSession(k, sid) == Len(k) >= 3 /\ k[1] = "session" /\ k[2] = sid

\* _get_redis_client: a missing client is (re)created and probed on every call;
\* a probe that fails leaves redis_client None and clears use_redis.
ClientAfter == IF redis_client = "none" THEN (IF redisUp THEN "client" ELSE "none") ELSE redis_client
UseAfter == IF redis_client = "none" THEN redisUp ELSE use_redis

\* _cleanup_expired
CleanupKeysKeepAll == DOMAIN in_memory_store
CleanupKeys == {k \in DOMAIN in_memory_store : ~(k \in DOMAIN expiry_times /\ expiry_times[k] <= now)}

Put(f, k, v) == [x \in DOMAIN f \cup {k} |-> IF x = k THEN v ELSE f[x]]
Restrict(f, S) == [x \in S |-> f[x]]

\* Python values handed to the store: what they are and what they hold
PyStr(x) == [py |-> "str", body |-> x]
PyDict(x) == [py |-> "dict", body |-> x]
PyTuple(x) == [py |-> "tuple", body |-> x]
PyList(x) == [py |-> "list", body |-> x]

\* json.dumps(data, default=str): tuples and lists both become JSON arrays
JsonDumps(v) ==
    [enc |-> IF v.py = "str" THEN "string"
             ELSE IF v.py = "dict" THEN "object"
             ELSE "array",
     body |-> v.body]

\* json.loads: a JSON array comes back as a list
JsonLoads(j) ==
    [py |-> IF j.enc = "string" THEN "str"
            ELSE IF j.enc = "object" THEN "dict"
            ELSE "list",
     body |-> j.body]

\* ttl = ttl or self.default_ttl (no ttl given is modelled as 0, falsy like None)
EffectiveTtlKeepZero(ttl) == ttl
EffectiveTtl(ttl) == IF ttl = 0 THEN default_ttl ELSE ttl

\* json.dumps raises on a value that refers to itself, default=str or not
PyCyclic(x) == [py |-> "cyclic", body |-> x]
Serializable(v) == v.py # "cyclic"

\* every operation of the store runs in try ... except Exception
HandlerCatchesStoreOnly(operation) == operation = "store_context"
HandlerCatches(operation) == TRUE

\* does this store_context call return True?  On the networked backend the
\* value must serialize and setex must get through
StoreSucceeds(data) == ~(UseAfter /\ ClientAfter = "client") \/ (redisUp /\ Serializable(data))

\* store_context(session_id, key, data, ttl)
StoreContextTtlKeepExpiry(sid, key, data, ttl) ==
    LET k == RedisKey(sid, key)
        c == ClientAfter
        u == UseAfter
        keep(f, new) == IF k \in DOMAIN f THEN f[k] ELSE new
    IN  /\ redis_client' = c
        /\ use_redis' = u
        /\ IF u /\ c = "client"
           THEN /\ UNCHANGED <<in_memory_store, expiry_times>>
                /\ IF redisUp /\ Serializable(data)
                   THEN /\ redis' = Put(redis, k,
                                        [json |-> JsonDumps(data),
                                         expires |-> IF k \in DOMAIN redis THEN redis[k].expires
                                                     ELSE now + EffectiveTtl(ttl)])
                        /\ written' = written \cup {k}
                   ELSE UNCHANGED <<redis, written>>
           ELSE /\ in_memory_store' = Put(Restrict(in_memory_store, CleanupKeys), k, data)
                /\ expiry_times' = Put(Restrict(expiry_times, CleanupKeys \cap DOMAIN expiry_times),
                                       k, keep(expiry_times, now + EffectiveTtl(ttl)))
                /\ written' = written \cup {k}
                /\ UNCHANGED redis

StoreContextTtl(sid, key, data, ttl) ==
    LET k == RedisKey(sid, key)
        c == ClientAfter
        u == UseAfter
    IN  /\ redis_client' = c
        /\ use_redis' = u
        /\ IF u /\ c = "client"
           THEN /\ UNCHANGED <<in_memory_store, expiry_times>>
                /\ IF redisUp /\ Serializable(data)
                   THEN /\ redis' = Put(redis, k, [json |-> JsonDumps(data),
                                                   expires |-> now + EffectiveTtl(ttl)])
                        /\ written' = written \cup {k}
                   ELSE \* json.dumps or setex raises, store_context returns False
                        UNCHANGED <<redis, written>>
           ELSE /\ in_memory_store' = Put(Restrict(in_memory_store, CleanupKeys), k, data)
                /\ expiry_times' = Put(Restrict(expiry_times, CleanupKeys \cap DOMAIN expiry_times),
                                       k, now + EffectiveTtl(ttl))
                /\ written' = written \cup {k}
                /\ UNCHANGED redis

\* store_context(session_id, key, data) with no ttl given
StoreContext(sid, key, data) == StoreContextTtl(sid, key, data, 0)

\* keys of the networked backend that have not expired
RedisLiveKeys == {k \in DOMAIN redis : redis[k].expires > now}

\* get_full_context(session_id): reads through redis_client only; with no client
\* (the in-process fallback) redis_client.keys raises and {} is returned.
\* The KEYS call and the GETs that follow are taken as one step: during a request
\* no key is deleted and each key is written once.
FullContextOfRedis(sid) ==
    LET ks == {k \in RedisLiveKeys : MatchesSession(k, sid)}
        locals == {Last(k) : k \in ks}
    IN  [l \in locals |-> JsonLoads(redis[CHOOSE k \in ks : Last(k) = l].json)]

GetFullContext(sid) ==
    IF ClientAfter = "client" /\ redisUp THEN FullContextOfRedis(sid) ELSE EmptyMap

\* the store variables a read leaves alone
ReadOnlyStore ==
    /\ redis_client' = ClientAfter
    /\ use_redis' = UseAfter
    /\ UNCHANGED <<redis, in_memory_store, expiry_times, written>>

Env == <<redisUp, flaps, now>>

(***************************************************************************)
(* Initial state: a request arrives.  memory_manager is one object for the  *)
(* life of the process: it has never been used, or an earlier request      *)
(* connected it and the networked backend has gone away since (a connected *)
(* client with the backend up is the state the first operation of a fresh  *)
(* store reaches at once).  Entries of earlier sessions are not this       *)
(* session's and are left out.                                             *)
(***************************************************************************)
Init ==
    /\ via \in {"http", "direct"}
    /\ \/ /\ via = "http" /\ query \in Queries
          /\ request_mode \in HttpModes /\ mode_arg = NoneArg /\ cpc = "http"
       \/ /\ via = "direct" /\ query \in DirectQueries
          /\ request_mode = NoMode /\ mode_arg \in DirectArgs /\ cpc = "start"
    /\ execution_mode = NoneArg
    /\ plan = "none"
    /\ idx = 1
    /\ results = [a \in Agents |-> NoResult]
    /\ results_error = Absent
    /\ results_mode = Absent
    /\ response = NoResponse
    /\ status = [a \in Agents |-> "idle"]
    /\ apc = [a \in Agents |-> "idle"]
    /\ ctx = [a \in Agents |-> EmptyMap]
    /\ res = [a \in Agents |-> NoResult]
    /\ ret = [a \in Agents |-> NoResult]
    /\ timedOut = {}
    /\ redisUp \in BOOLEAN
    /\ flaps = 0
    /\ redis_client \in {"none", "client"}
    /\ redis_client = "client" => ~redisUp
    /\ use_redis = TRUE
    /\ redis = EmptyMap
    /\ in_memory_store = EmptyMap
    /\ expiry_times = EmptyMap
    /\ now = 0
    /\ written = {}
    /\ op = NoOp
    /\ ticks = 0
    /\ puts = 0
    /\ stored = EmptyMap
    /\ writes = [a \in Agents |-> 0]
    /\ runs = 0
    /\ session_id = [a \in Agents |-> NoSession]
    /\ calls = [r \in Requests |-> NoCall]
    /\ outputs = {}
    /\ loads = {}

(***************************************************************************)
(* HTTP boundary: analyze_request validates and converts the mode          *)
(***************************************************************************)
AnalyzeRequest ==
    /\ cpc = "http"
    /\ IF ModeGiven(request_mode) /\ Lower(request_mode) \notin ExecutionModes
       THEN \* ExecutionMode(...) raises ValueError: HTTP 400
            /\ cpc' = "http400"
            /\ UNCHANGED mode_arg
       ELSE /\ mode_arg' = IF ~ModeGiven(request_mode) THEN NoneArg ELSE EnumArg(Lower(request_mode))
            /\ cpc' = "start"
    /\ UNCHANGED <<via, request_mode, query, execution_mode, plan, idx, results,
                   results_error, results_mode, response, agentVars, storeVars, clientVars>>

(***************************************************************************)
(* Orchestrator.process_request                                            *)
(***************************************************************************)
\* lines 61-64: session id, strategy choice, and the log line that reads
\* execution_mode.value before the try block is entered
ProcessRequestStart ==
    /\ cpc = "start"
    /\ IF ~Truthy(mode_arg) /\ ~IsStr(query)
       THEN \* line 62: _determine_execution_strategy calls query.lower()
            /\ cpc' = "raised"
            /\ UNCHANGED execution_mode
       ELSE LET m == IF Truthy(mode_arg) THEN mode_arg ELSE EnumArg(DetermineStrategy(query))
            IN  /\ execution_mode' = m
                /\ cpc' = IF HasValueAttr(m) THEN "store_query" ELSE "raised"
    /\ UNCHANGED <<reqVars, plan, idx, results, results_error, results_mode, response,
                   agentVars, storeVars, clientVars>>

\* line 68
StoreQuery ==
    /\ cpc = "store_query"
    /\ StoreContext(SessionId, OriginalQueryKey, PyStr(query))
    /\ cpc' = "store_mode"
    /\ UNCHANGED <<reqVars, execution_mode, plan, idx, results, results_error, results_mode,
                   response, agentVars, Env, clientVars>>

\* lines 85-92: the dict the handler of process_request returns
ErrorFields == {"session_id", "status", "error", "query"}
ErrorResponse ==
    [kind |-> "error", status |-> "error", mode |-> "", agents_completed |-> 0,
     fields |-> ErrorFields, query |-> query, session_id |-> SessionId,
     final_report |-> EmptyText, consolidated_insights |-> << >>]

\* lines 69-77: store the mode, then enter the plan's _execute_* coroutine
StoreMode ==
    /\ cpc = "store_mode"
    /\ IF HasValueAttr(execution_mode)
       THEN /\ StoreContext(SessionId, ExecutionModeKey, PyStr(execution_mode.value))
            /\ IF execution_mode.value \notin {"sequential", "parallel"} /\ ~IsStr(query)
               THEN \* _execute_dynamic calls query.lower(): handled at lines 85-92
                    /\ response' = ErrorResponse
                    /\ cpc' = "done"
                    /\ UNCHANGED plan
               ELSE /\ plan' = PlanFor(execution_mode.value, query)
                    /\ cpc' = IF plan' = "parallel" THEN "par1" ELSE "seq"
                    /\ UNCHANGED response
       ELSE \* AttributeError inside the try block: lines 85-92
            /\ response' = ErrorResponse
            /\ cpc' = "done"
            /\ UNCHANGED <<plan, redis_client, use_redis, redis, in_memory_store,
                           expiry_times, written>>
    /\ UNCHANGED <<reqVars, execution_mode, idx, results, results_error, results_mode,
                   agentVars, Env, clientVars>>

(***************************************************************************)
(* BaseAgent.run, one step per await                                       *)
(***************************************************************************)
InFlight(a) == apc[a] \in {"load", "process", "store"}

\* the call is made and runs to its first await: status RUNNING (line 72)
Started(a) ==
    /\ session_id' = [session_id EXCEPT ![a] = SessionId]
    /\ apc' = [apc EXCEPT ![a] = "load"]
    /\ status' = [status EXCEPT ![a] = "running"]

\* line 76: context = await self.load_context()
AgentLoad(a) ==
    /\ apc[a] = "load"
    /\ ctx' = [ctx EXCEPT ![a] = GetFullContext(session_id[a])]
    /\ ReadOnlyStore
    /\ apc' = [apc EXCEPT ![a] = "process"]
    /\ UNCHANGED <<reqVars, coordVars, status, res, ret, timedOut, Env, clientVars, writes, session_id>>

\* line 79: result = await self.process(input_data, context).  The concrete
\* agents return a completed result or catch their own failure and return an
\* error result; the abstract contract also allows process to raise, which run
\* turns into an error record (lines 89-97).
ProcessOutcomes == {"completed", "error", "raise"}

\* the text the copywriter's language-model call yields: possibly nothing
Reports == {EmptyText, <<"report">>}

\* dict.get(key, default)
Get(d, key, default) == IF key \in DOMAIN d THEN d[key] ELSE default

\* the dict a concrete agent's process returns; an analysing agent's completed
\* result carries insights and recommendations, the copywriter's a final_report
ProcessResult(a, o, report) ==
    IF o # "completed" THEN [agent |-> a, status |-> o, error |-> <<"failed">>]
    ELSE IF a = "copywriter"
         THEN [agent |-> a, status |-> o, final_report |-> report]
         ELSE [agent |-> a, status |-> o,
               insights |-> <<"insight">>, recommendations |-> <<"recommendation">>]

\* lines 89-97: except Exception takes whatever process raises and returns the
\* error dict; str(e) is its description
RunCatchesNothing(exc) == FALSE
RunCatches(exc) == exc = "Exception"

ErrorDict(a) == [agent |-> a, status |-> "error", error |-> <<"raised">>, result |-> "None"]

\* lines 82-87: store_result's return value is not looked at, the result of
\* process is what run returns
RunReturnsChecked(a, result, ok) == IF ok THEN result ELSE ErrorDict(a)
RunReturns(a, result, ok) == result

AgentProcess(a) ==
    /\ apc[a] = "process"
    /\ \E o \in ProcessOutcomes, report \in Reports :
         \* every concrete process calls query.lower(): completed needs a str
         /\ o = "completed" => IsStr(query)
         /\ a # "copywriter" \/ o # "completed" => report = EmptyText
         /\ IF o = "raise"
            THEN IF RunCatches("Exception")
                 THEN /\ status' = [status EXCEPT ![a] = "error"]
                      /\ ret' = [ret EXCEPT ![a] = ErrorDict(a)]
                      /\ apc' = [apc EXCEPT ![a] = "returned"]
                      /\ UNCHANGED res
                 ELSE \* the exception leaves run
                      /\ apc' = [apc EXCEPT ![a] = "escaped"]
                      /\ UNCHANGED <<status, res, ret>>
            ELSE /\ status' = [status EXCEPT ![a] = o]
                 /\ res' = [res EXCEPT ![a] = ProcessResult(a, o, report)]
                 /\ apc' = [apc EXCEPT ![a] = "store"]
                 /\ UNCHANGED ret
    /\ UNCHANGED <<reqVars, coordVars, ctx, timedOut, storeVars, clientVars, writes, session_id>>

\* lines 82-87: store the result, status COMPLETED, return it
AgentStore(a) ==
    /\ apc[a] = "store"
    /\ StoreContext(session_id[a], AgentOutputKey(a), PyDict(res[a]))
    /\ writes' = [writes EXCEPT ![a] = @ + 1]
    /\ status' = [status EXCEPT ![a] = "completed"]
    /\ ret' = [ret EXCEPT ![a] = RunReturns(a, res[a], StoreSucceeds(PyDict(res[a])))]
    /\ apc' = [apc EXCEPT ![a] = "returned"]
    /\ UNCHANGED <<reqVars, coordVars, ctx, res, timedOut, Env, clientVars, session_id>>

\* asyncio.wait_for: the deadline expires while the call is suspended; the call
\* is cancelled at its await (CancelledError is not an Exception, so run's
\* handler does not see it) and TimeoutError is raised to the awaiting code
DeadlineNever(a) == FALSE
DeadlineExpires(a) == InFlight(a)

Cancelled(a) ==
    /\ DeadlineExpires(a)
    /\ apc' = [apc EXCEPT ![a] = "cancelled"]
    /\ timedOut' = timedOut \cup {a}

(***************************************************************************)
(* Orchestrator._execute_sequential and _execute_research_first            *)
(***************************************************************************)
Current == Order(plan)[idx]

\* asyncio.wait_for(self.<agent>.run(query, session_id), timeout=self.agent_timeout)
SeqInvoke ==
    /\ cpc = "seq"
    /\ apc[Current] = "idle"
    /\ Started(Current)
    /\ UNCHANGED <<reqVars, coordVars, ctx, res, ret, timedOut, storeVars, clientVars, writes>>

\* "await asyncio.wait_for(...run(...))" yields its value when run has returned
RunCallStarted(a) == apc[a] # "idle"
RunCallReturned(a) == apc[a] = "returned"

\* the call returned: results[<agent>] = result, whatever its status; after the
\* last one the plan records its mode and returns
SeqCollect ==
    /\ cpc = "seq"
    /\ RunCallReturned(Current)
    /\ results' = [results EXCEPT ![Current] = ret[Current]]
    /\ IF idx = Len(Order(plan))
       THEN /\ results_mode' = PlanLabel(plan)
            /\ cpc' = "aggregate"
            /\ UNCHANGED idx
       ELSE /\ idx' = idx + 1
            /\ UNCHANGED <<results_mode, cpc>>
    /\ UNCHANGED <<reqVars, execution_mode, plan, results_error, response, agentVars, storeVars, clientVars>>

\* except asyncio.TimeoutError (sequential) / except Exception (research first)
SeqTimeout ==
    /\ cpc = "seq"
    /\ Cancelled(Current)
    /\ results_error' = TimeoutError(plan)
    /\ cpc' = "aggregate"
    /\ UNCHANGED <<reqVars, execution_mode, plan, idx, results, results_mode, response,
                   status, ctx, res, ret, storeVars, clientVars, writes, session_id>>

(***************************************************************************)
(* Orchestrator._execute_parallel                                          *)
(***************************************************************************)
\* lines 169-174: both wait_for calls are handed to asyncio.gather
ParInvoke ==
    /\ cpc = "par1"
    /\ \A a \in Stage1 : apc[a] = "idle"
    /\ session_id' = [a \in Agents |-> IF a \in Stage1 THEN SessionId ELSE session_id[a]]
    /\ apc' = [a \in Agents |-> IF a \in Stage1 THEN "load" ELSE apc[a]]
    /\ status' = [a \in Agents |-> IF a \in Stage1 THEN "running" ELSE status[a]]
    /\ UNCHANGED <<reqVars, coordVars, ctx, res, ret, timedOut, storeVars, clientVars, writes>>

\* gather returns its results when every awaitable has returned
Stage1AnyReturned == \E a \in Stage1 : apc[a] = "returned"
Stage1Joined == \A a \in Stage1 : apc[a] = "returned"

ParJoin ==
    /\ cpc = "par1"
    /\ Stage1Joined
    /\ results' = [a \in Agents |-> IF a \in Stage1 THEN ret[a] ELSE results[a]]
    /\ cpc' = "par2"
    /\ UNCHANGED <<reqVars, execution_mode, plan, idx, results_error, results_mode, response,
                   agentVars, storeVars, clientVars>>

\* gather (return_exceptions=False) hands the first exception to its awaiter at
\* once and leaves the other awaitable running; lines 196-199 record the error
ParTimeoutContinue(a) ==
    /\ cpc = "par1"
    /\ a \in Stage1
    /\ Cancelled(a)
    /\ results_error' = TimeoutText
    /\ cpc' = "par2"
    /\ UNCHANGED <<reqVars, execution_mode, plan, idx, results, results_mode, response,
                   status, ctx, res, ret, storeVars, clientVars, writes, session_id>>

ParTimeout(a) ==
    /\ cpc = "par1"
    /\ a \in Stage1
    /\ Cancelled(a)
    /\ results_error' = TimeoutText
    /\ cpc' = "aggregate"
    /\ UNCHANGED <<reqVars, execution_mode, plan, idx, results, results_mode, response,
                   status, ctx, res, ret, storeVars, clientVars, writes, session_id>>

\* the deadline of a stage-1 call the coordinator no longer waits for
BackgroundTimeout(a) ==
    /\ plan = "parallel"
    /\ cpc \in {"aggregate", "done"}
    /\ a \in Stage1
    /\ Cancelled(a)
    /\ UNCHANGED <<reqVars, coordVars, status, ctx, res, ret, storeVars, clientVars, writes, session_id>>

\* lines 182-185
Stage2Invoke ==
    /\ cpc = "par2"
    /\ apc[Stage2Agent] = "idle"
    /\ Started(Stage2Agent)
    /\ UNCHANGED <<reqVars, coordVars, ctx, res, ret, timedOut, storeVars, clientVars, writes>>

\* lines 186-194
Stage2Collect ==
    /\ cpc = "par2"
    /\ apc[Stage2Agent] = "returned"
    /\ results' = [results EXCEPT ![Stage2Agent] = ret[Stage2Agent]]
    /\ results_mode' = PlanLabel(plan)
    /\ cpc' = "aggregate"
    /\ UNCHANGED <<reqVars, execution_mode, plan, idx, results_error, response,
                   agentVars, storeVars, clientVars>>

Stage2Timeout ==
    /\ cpc = "par2"
    /\ Cancelled(Stage2Agent)
    /\ results_error' = TimeoutText
    /\ cpc' = "aggregate"
    /\ UNCHANGED <<reqVars, execution_mode, plan, idx, results, results_mode, response,
                   status, ctx, res, ret, storeVars, clientVars, writes, session_id>>

(***************************************************************************)
(* Orchestrator._aggregate_results                                         *)
(***************************************************************************)
\* results.get("error") is falsy when the key is absent or the text is empty
ErrorRecorded(e) == e # Absent /\ e # ""

GlobalStatus(rs, e) ==
    IF ErrorRecorded(e) \/ \E a \in Agents : rs[a].status = "error" THEN "error"
    ELSE IF \E a \in Agents : rs[a].status = "running" THEN "running"
    ELSE "completed"

\* s[:n]
Take(s, n) == SubSeq(s, 1, IF Len(s) < n THEN Len(s) ELSE n)

\* results.get(<agent>, {})
ResultOf(rs, a) == IF rs[a].status = "absent" THEN EmptyMap ELSE rs[a]

\* _create_fallback_report, as the lines it joins: heading, optional sections
\* with bounded excerpts, closing line
FallbackReport(data_result, research_result, q) ==
    LET data_insights == Get(data_result, "insights", << >>)
        research_insights == Get(research_result, "insights", << >>)
        recommendations == Take(Get(data_result, "recommendations", << >>), 3)
                           \o Take(Get(research_result, "recommendations", << >>), 3)
    IN  <<"# Analysis Report", "## Executive Summary", "This report provides analysis results">>
        \o (IF data_insights # << >>
            THEN <<"## Data Analysis Results", "Key quantitative insights:">>
                 \o Take(data_insights, 5) \o <<"">>
            ELSE << >>)
        \o (IF research_insights # << >>
            THEN <<"## Research Findings", "Market research insights:">>
                 \o Take(research_insights, 5) \o <<"">>
            ELSE << >>)
        \o (IF recommendations # << >>
            THEN <<"## Strategic Recommendations">> \o recommendations \o <<"">>
            ELSE << >>)
        \o <<"Report generated by AI Agent Orchestration Hub">>

\* lines 293-296: the copywriter's report, or the fallback when it is empty and
\* the run completed
FinalReportNoFallback(rs, global_status, q) ==
    Get(ResultOf(rs, "copywriter"), "final_report", EmptyText)

FinalReport(rs, global_status, q) ==
    LET final_report == Get(ResultOf(rs, "copywriter"), "final_report", EmptyText)
    IN  IF final_report = EmptyText /\ global_status = "completed"
        THEN FallbackReport(ResultOf(rs, "data_analyst"), ResultOf(rs, "researcher"), q)
        ELSE final_report

\* lines 287-291 and 314: the insights of the two analysing agents, each with
\* the mark of its source in front, data_analyst's first; all_insights[:10]
Tagged(tag, insights) == [i \in 1..Len(insights) |-> <<tag, insights[i]>>]

ConsolidatedInsightsUncapped(rs) ==
    Tagged("chart", Get(ResultOf(rs, "data_analyst"), "insights", << >>))
        \o Tagged("magnifier", Get(ResultOf(rs, "researcher"), "insights", << >>))

ConsolidatedInsights(rs) ==
    Take(Tagged("chart", Get(ResultOf(rs, "data_analyst"), "insights", << >>))
             \o Tagged("magnifier", Get(ResultOf(rs, "researcher"), "insights", << >>)),
         InsightCap)

\* results.items(): the agents' entries and the entries the plan added
\* ("error": a str; "execution_mode": a str, with "execution_order" or
\* "execution_phases": a list)
ResultsItems(rs, e, m) ==
    {[key |-> a, isdict |-> TRUE, status |-> rs[a].status] : a \in {x \in Agents : rs[x] # NoResult}}
        \cup (IF e # Absent THEN {[key |-> "error", isdict |-> FALSE, status |-> ""]} ELSE {})
        \cup (IF m # Absent
              THEN {[key |-> "execution_mode", isdict |-> FALSE, status |-> ""],
                    [key |-> IF m = "parallel" THEN "execution_phases" ELSE "execution_order",
                     isdict |-> FALSE, status |-> ""]}
              ELSE {})

\* line 304: the entries that are dicts with status completed
AgentsCompletedAnyEntry(rs, e, m) == Cardinality(ResultsItems(rs, e, m))
AgentsCompleted(rs, e, m) ==
    Cardinality({it \in ResultsItems(rs, e, m) : it.isdict /\ it.status = "completed"})

\* lines 299-321: the keys of the aggregated result
AggregatedFields ==
    {"session_id", "status", "query", "execution_summary", "agent_results",
     "consolidated_insights", "final_report", "executive_summary", "key_findings",
     "recommendations", "data_quality_score", "research_reliability_score"}

Aggregate ==
    /\ cpc = "aggregate"
    /\ response' = [kind |-> "aggregated",
                    status |-> GlobalStatus(results, results_error),
                    mode |-> IF results_mode = Absent THEN "unknown" ELSE results_mode,
                    agents_completed |-> AgentsCompleted(results, results_error, results_mode),
                    fields |-> AggregatedFields,
                    query |-> query,
                    session_id |-> SessionId,
                    final_report |-> FinalReport(results, GlobalStatus(results, results_error), query),
                    consolidated_insights |-> ConsolidatedInsights(results)]
    /\ cpc' = "done"
    /\ UNCHANGED <<reqVars, execution_mode, plan, idx, results, results_error, results_mode,
                   agentVars, storeVars, clientVars>>

(***************************************************************************)
(* Environment: the networked backend becomes unreachable or reachable     *)
(***************************************************************************)
RedisFlap ==
    /\ flaps < MaxFlaps
    /\ cpc \notin {"http", "http400", "raised"}
    /\ redisUp' = ~redisUp
    /\ flaps' = flaps + 1
    /\ UNCHANGED <<reqVars, coordVars, agentVars, redis_client, use_redis, redis,
                   in_memory_store, expiry_times, now, written, clientVars>>

Next ==
    \/ AnalyzeRequest
    \/ ProcessRequestStart
    \/ StoreQuery
    \/ StoreMode
    \/ SeqInvoke
    \/ SeqCollect
    \/ SeqTimeout
    \/ ParInvoke
    \/ ParJoin
    \/ \E a \in Agents : ParTimeout(a)
    \/ \E a \in Agents : BackgroundTimeout(a)
    \/ Stage2Invoke
    \/ Stage2Collect
    \/ Stage2Timeout
    \/ \E a \in Agents : AgentLoad(a)
    \/ \E a \in Agents : AgentProcess(a)
    \/ \E a \in Agents : AgentStore(a)
    \/ Aggregate
    \/ RedisFlap

Spec == Init /\ [][Next]_vars

(***************************************************************************)
(* Progress.  The event loop resumes the request's coroutine whenever it   *)
(* can go on: a step of its own, the return of the call it awaits, or the  *)
(* expiry of that call's deadline.  Nothing makes a worker call itself go  *)
(* on (a call may hang); the store always answers.                         *)
(***************************************************************************)
CoordinatorStep ==
    \/ AnalyzeRequest
    \/ ProcessRequestStart
    \/ StoreQuery
    \/ StoreMode
    \/ SeqInvoke
    \/ SeqCollect
    \/ SeqTimeout
    \/ ParInvoke
    \/ ParJoin
    \/ \E a \in Agents : ParTimeout(a)
    \/ Stage2Invoke
    \/ Stage2Collect
    \/ Stage2Timeout
    \/ Aggregate

\* requests with a one-word query (each plan is selected by one of them); the
\* networked backend stays as the request found it
InitLive == Init /\ Cardinality(query) = 1

NextLive ==
    \/ CoordinatorStep
    \/ \E a \in Agents : BackgroundTimeout(a)
    \/ \E a \in Agents : AgentLoad(a)
    \/ \E a \in Agents : AgentProcess(a)
    \/ \E a \in Agents : AgentStore(a)

SpecLive == InitLive /\ [][NextLive]_vars /\ WF_vars(CoordinatorStep)

(***************************************************************************)
(* The store used on its own: a client (the status and debug endpoints,    *)
(* the tests) calls MemoryManager while the clock runs and the networked   *)
(* backend comes and goes                                                  *)
(***************************************************************************)
Sessions == {"s1", "s2"}
NoteKey == <<"note">>
\* the (session, key) pairs the client uses: a plain key and a worker output
\* in one session, a worker output in another
ClientKeys == {<<"s1", NoteKey>>, <<"s1", AgentOutputKey("data_analyst")>>,
               <<"s2", AgentOutputKey("data_analyst")>>}
\* what the client stores: a JSON-native value with no ttl given (0 stands for
\* "not given") and a value that is not JSON-native with a ttl of one second
ClientData == {<<PyDict("a"), 0>>, <<PyTuple("b"), 1>>}
\* the store_context calls the client makes: each key with each of these, and
\* one call with a value that cannot be serialized
ClientPuts ==
    {<<sk[1], sk[2], dt[1], dt[2]>> : sk \in ClientKeys, dt \in ClientData}
        \cup {<<"s1", NoteKey, PyCyclic("c"), 0>>}
TickSteps == {1, default_ttl}
PyNone == [py |-> "None", body |-> ""]

\* pattern f"session:{session_id}:agent_output:*"
MatchesAgentOutput(k, sid) == MatchesSession(k, sid) /\ Len(k) >= 4 /\ k[3] = "agent_output"

OnRedis == UseAfter /\ ClientAfter = "client"
\* get_full_context, get_agent_outputs and clear_context use the client whatever
\* use_redis says: they fail with no client and with no connection
BulkFails == ~(ClientAfter = "client" /\ redisUp)

InitStore ==
    /\ via = "client" /\ request_mode = NoMode /\ mode_arg = NoneArg /\ query = {"data"}
    /\ cpc = "idle"
    /\ execution_mode = NoneArg
    /\ plan = "none"
    /\ idx = 1
    /\ results = [a \in Agents |-> NoResult]
    /\ results_error = Absent
    /\ results_mode = Absent
    /\ response = NoResponse
    /\ status = [a \in Agents |-> "idle"]
    /\ apc = [a \in Agents |-> "idle"]
    /\ ctx = [a \in Agents |-> EmptyMap]
    /\ res = [a \in Agents |-> NoResult]
    /\ ret = [a \in Agents |-> NoResult]
    /\ timedOut = {}
    /\ redisUp \in BOOLEAN
    /\ flaps = 0
    /\ redis_client = "none"
    /\ use_redis = TRUE
    /\ redis = EmptyMap
    /\ in_memory_store = EmptyMap
    /\ expiry_times = EmptyMap
    /\ now = 0
    /\ written = {}
    /\ op = NoOp
    /\ ticks = 0
    /\ puts = 0
    /\ stored = EmptyMap
    /\ writes = [a \in Agents |-> 0]
    /\ runs = 0
    /\ session_id = [a \in Agents |-> NoSession]
    /\ calls = [r \in Requests |-> NoCall]
    /\ outputs = {}
    /\ loads = {}

\* await memory.store_context(session_id, key, data, ttl)
ClientStoreContext ==
    /\ op = NoOp
    /\ puts < MaxPuts
    /\ \E put \in ClientPuts :
       LET sid == put[1]
           key == put[2]
           data == put[3]
           ttl == put[4]
       IN
         /\ StoreContextTtl(sid, key, data, ttl)
         /\ op' = [name |-> "store_context", sid |-> sid, key |-> key, data |-> data,
                   ttl |-> ttl, result |-> StoreSucceeds(data),
                   failed |-> ~StoreSucceeds(data),
                   raised |-> ~StoreSucceeds(data) /\ ~HandlerCatches("store_context"),
                   held |-> IF OnRedis THEN RedisKey(sid, key) \in RedisLiveKeys
                            ELSE RedisKey(sid, key) \in CleanupKeys,
                   previous |-> IF RedisKey(sid, key) \in DOMAIN stored
                                THEN stored[RedisKey(sid, key)]
                                ELSE [value |-> PyNone, at |-> 0, ttl |-> 0, cleared |-> FALSE]]
         /\ stored' = IF StoreSucceeds(data)
                      THEN Put(stored, RedisKey(sid, key),
                               [value |-> data, at |-> now, ttl |-> ttl, cleared |-> FALSE])
                      ELSE stored
    /\ puts' = puts + 1
    /\ UNCHANGED <<reqVars, coordVars, agentVars, Env, ticks, runs, sharedVars>>

\* get_context(session_id, key): the value, or None
GetContext(sid, key) ==
    LET k == RedisKey(sid, key)
    IN  IF OnRedis
        THEN IF redisUp /\ k \in RedisLiveKeys THEN JsonLoads(redis[k].json) ELSE PyNone
        ELSE IF k \in CleanupKeys THEN in_memory_store[k] ELSE PyNone

ClientGetContext ==
    /\ op = NoOp
    /\ \E sk \in ClientKeys :
         op' = [name |-> "get_context", sid |-> sk[1], key |-> sk[2],
                result |-> GetContext(sk[1], sk[2]),
                failed |-> OnRedis /\ ~redisUp,
                raised |-> OnRedis /\ ~redisUp /\ ~HandlerCatches("get_context"),
                held |-> ~OnRedis /\ RedisKey(sk[1], sk[2]) \in DOMAIN in_memory_store]
    /\ redis_client' = ClientAfter
    /\ use_redis' = UseAfter
    /\ IF OnRedis
       THEN UNCHANGED <<in_memory_store, expiry_times>>
       ELSE \* line 127: self._cleanup_expired()
            /\ in_memory_store' = Restrict(in_memory_store, CleanupKeys)
            /\ expiry_times' = Restrict(expiry_times, CleanupKeys \cap DOMAIN expiry_times)
    /\ UNCHANGED <<reqVars, coordVars, agentVars, Env, redis, written, ticks, puts, stored, runs, sharedVars>>

\* get_full_context(session_id)
ClientGetFullContext ==
    /\ op = NoOp
    /\ \E sid \in Sessions :
         op' = [name |-> "get_full_context", sid |-> sid,
                result |-> GetFullContext(sid),
                failed |-> BulkFails,
                raised |-> BulkFails /\ ~HandlerCatches("get_full_context")]
    /\ ReadOnlyStore
    /\ UNCHANGED <<reqVars, coordVars, agentVars, Env, ticks, puts, stored, runs, sharedVars>>

\* get_agent_outputs(session_id): like get_full_context it reads through
\* redis_client only
GetAgentOutputs(sid) ==
    IF ClientAfter = "client" /\ redisUp
    THEN LET ks == {k \in RedisLiveKeys : MatchesAgentOutput(k, sid)}
             names == {Last(k) : k \in ks}
         IN  [n \in names |-> JsonLoads(redis[CHOOSE k \in ks : Last(k) = n].json)]
    ELSE EmptyMap

ClientGetAgentOutputs ==
    /\ op = NoOp
    /\ \E sid \in Sessions :
         op' = [name |-> "get_agent_outputs", sid |-> sid,
                result |-> GetAgentOutputs(sid),
                failed |-> BulkFails,
                raised |-> BulkFails /\ ~HandlerCatches("get_agent_outputs")]
    /\ ReadOnlyStore
    /\ UNCHANGED <<reqVars, coordVars, agentVars, Env, ticks, puts, stored, runs, sharedVars>>

\* clear_context(session_id): deletes the session's keys of the networked
\* backend; with no client or no connection it returns False
ClientClearContext ==
    /\ op = NoOp
    /\ \E sid \in Sessions :
         LET ok == ClientAfter = "client" /\ redisUp
         IN  /\ op' = [name |-> "clear_context", sid |-> sid, result |-> ok,
                       failed |-> BulkFails,
                       raised |-> BulkFails /\ ~HandlerCatches("clear_context")]
             /\ redis' = IF ok
                         THEN Restrict(redis, {k \in DOMAIN redis : ~MatchesSession(k, sid)})
                         ELSE redis
             /\ stored' = IF ok
                          THEN Restrict(stored, {k \in DOMAIN stored : ~MatchesSession(k, sid)})
                          ELSE [k \in DOMAIN stored |->
                                   IF MatchesSession(k, sid)
                                   THEN [stored[k] EXCEPT !.cleared = TRUE]
                                   ELSE stored[k]]
    /\ redis_client' = ClientAfter
    /\ use_redis' = UseAfter
    /\ UNCHANGED <<reqVars, coordVars, agentVars, Env, in_memory_store, expiry_times,
                   written, ticks, puts, runs, sharedVars>>

\* time passes
Tick ==
    /\ op = NoOp
    /\ ticks < MaxTicks
    /\ \E d \in TickSteps : now' = now + d
    /\ ticks' = ticks + 1
    /\ UNCHANGED <<reqVars, coordVars, agentVars, redisUp, flaps, redis_client, use_redis,
                   redis, in_memory_store, expiry_times, written, op, puts, stored, runs, sharedVars>>

\* the networked backend becomes reachable or unreachable, any number of times
BackendChanges ==
    /\ op = NoOp
    /\ redisUp' = ~redisUp
    /\ UNCHANGED <<reqVars, coordVars, agentVars, flaps, redis_client, use_redis, redis,
                   in_memory_store, expiry_times, now, written, clientVars>>

\* the caller (an endpoint, a test) has the result of its call and goes on
ClientReturns ==
    /\ op # NoOp
    /\ op' = NoOp
    /\ UNCHANGED <<reqVars, coordVars, agentVars, storeVars, ticks, puts, stored, runs, sharedVars>>

(***************************************************************************)
(* The agents called directly: a caller (the tests, a script) runs agents  *)
(* of one session, and runs an agent again once its call has returned      *)
(***************************************************************************)
InitRun == InitStore

\* agent.run(query, session_id): result and context are locals of the call
ClientRun(a) ==
    /\ runs < MaxRuns
    /\ apc[a] \in {"idle", "returned"}
    /\ runs' = runs + 1
    /\ Started(a)
    /\ writes' = [writes EXCEPT ![a] = 0]
    /\ res' = [res EXCEPT ![a] = NoResult]
    /\ ret' = [ret EXCEPT ![a] = NoResult]
    /\ ctx' = [ctx EXCEPT ![a] = EmptyMap]
    /\ UNCHANGED <<reqVars, coordVars, timedOut, storeVars, op, ticks, puts, stored, sharedVars>>

NextRun ==
    \/ \E a \in Agents : ClientRun(a)
    \/ \E a \in Agents : AgentLoad(a)
    \/ \E a \in Agents : AgentProcess(a)
    \/ \E a \in Agents : AgentStore(a)
    \/ RedisFlap

SpecRun == InitRun /\ [][NextRun]_vars

(***************************************************************************)
(* Two requests at the same time.  The application has one Orchestrator    *)
(* and so one object per agent; each request runs the agents one after the *)
(* other (the default strategy) under its own session id.  A run call can  *)
(* be suspended at each of its awaits, where the other request may go on.  *)
(***************************************************************************)
InitShared == InitStore

AgentOf(r) == Order("sequential")[calls[r].idx]

\* lines 69-76: self.session_id = session_id, status RUNNING, and load_context
\* hands self.session_id to get_full_context before the call is first suspended
RunStart(r) ==
    /\ calls[r].pc = "idle"
    /\ calls[r].idx <= Len(Order("sequential"))
    /\ session_id' = [session_id EXCEPT ![AgentOf(r)] = SessionOf(r)]
    /\ status' = [status EXCEPT ![AgentOf(r)] = "running"]
    /\ calls' = [calls EXCEPT ![r] = [idx |-> @.idx, pc |-> "load", sid |-> SessionOf(r)]]
    /\ UNCHANGED <<reqVars, coordVars, apc, ctx, res, ret, timedOut, writes, storeVars,
                   op, ticks, puts, stored, runs, outputs, loads>>

\* line 76 returns: the context of the session that was handed over; process
\* is entered and suspended in its own awaits
RunLoaded(r) ==
    /\ calls[r].pc = "load"
    /\ loads' = loads \cup {[session |-> calls[r].sid, agent |-> AgentOf(r), request |-> r]}
    /\ calls' = [calls EXCEPT ![r] = [idx |-> @.idx, pc |-> "process", sid |-> NoSession]]
    /\ UNCHANGED <<reqVars, coordVars, agentVars, storeVars, op, ticks, puts, stored, runs,
                   outputs>>

\* lines 79-82: process returns and store_result reads self.session_id as it is
\* now (lines 107-110) for the key of store_agent_output
RunProcessed(r) ==
    /\ calls[r].pc = "process"
    /\ calls' = [calls EXCEPT ![r] = [idx |-> @.idx, pc |-> "store",
                                     sid |-> session_id[AgentOf(r)]]]
    /\ UNCHANGED <<reqVars, coordVars, agentVars, storeVars, op, ticks, puts, stored, runs,
                   outputs, loads>>

\* lines 82-87: the write is done, status COMPLETED, run returns and the plan
\* goes on to its next agent
RunStored(r) ==
    /\ calls[r].pc = "store"
    /\ outputs' = outputs \cup {[session |-> calls[r].sid, agent |-> AgentOf(r), request |-> r]}
    /\ status' = [status EXCEPT ![AgentOf(r)] = "completed"]
    /\ calls' = [calls EXCEPT ![r] = [idx |-> @.idx + 1, pc |-> "idle", sid |-> NoSession]]
    /\ UNCHANGED <<reqVars, coordVars, apc, ctx, res, ret, timedOut, writes, session_id,
                   storeVars, op, ticks, puts, stored, runs, loads>>

NextShared ==
    \/ \E r \in Requests : RunStart(r)
    \/ \E r \in Requests : RunLoaded(r)
    \/ \E r \in Requests : RunProcessed(r)
    \/ \E r \in Requests : RunStored(r)

SpecShared == InitShared /\ [][NextShared]_vars

(***************************************************************************)
(* _aggregate_results on its own: the results a plan can hand to it        *)
(***************************************************************************)
InsightList(n) == [i \in 1..n |-> "insight"]

\* what run can return for an agent; an analysing agent's completed result has
\* up to max_insights insights
AgentResults(a) ==
    {ErrorDict(a), ProcessResult(a, "error", EmptyText)}
        \cup (IF a = "copywriter"
              THEN {ProcessResult(a, "completed", report) : report \in Reports}
              ELSE {[agent |-> a, status |-> "completed", insights |-> InsightList(n),
                     recommendations |-> <<"recommendation">>] : n \in 0..max_insights})

\* the agents whose result a plan has collected when it returns: all of them, or
\* those before the call (or stage) whose deadline expired
CollectedSets(p) ==
    IF p = "parallel" THEN {{}, Stage1, Agents}
    ELSE {{Order(p)[i] : i \in 1..k} : k \in 0..Len(Order(p))}

\* the calls cancelled by then
CancelledAt(p, c) ==
    IF c = Agents THEN {}
    ELSE IF p = "parallel" THEN (IF c = {} THEN Stage1 ELSE {Stage2Agent})
    ELSE {Order(p)[Cardinality(c) + 1]}

\* a dynamic request at the call of _aggregate_results (line 80), the store
\* connected earlier and unreachable throughout (nothing was written)
InitAggregate ==
    /\ via = "direct" /\ request_mode = NoMode /\ mode_arg = EnumArg("dynamic")
    /\ query \in {{"data"}, {"market"}, {"detailed"}}
    /\ cpc = "aggregate"
    /\ execution_mode = EnumArg("dynamic")
    /\ plan = PlanFor("dynamic", query)
    /\ idx = 1
    /\ \E c \in CollectedSets(plan) :
          /\ results \in {r \in [Agents -> {NoResult} \cup UNION {AgentResults(a) : a \in Agents}] :
                             \A a \in Agents : IF a \in c THEN r[a] \in AgentResults(a)
                                                ELSE r[a] = NoResult}
          /\ results_error = IF c = Agents THEN Absent ELSE TimeoutError(plan)
          /\ results_mode = IF c = Agents THEN PlanLabel(plan) ELSE Absent
          /\ apc = [a \in Agents |-> IF a \in c THEN "returned"
                                     ELSE IF a \in CancelledAt(plan, c) THEN "cancelled"
                                     ELSE "idle"]
          /\ timedOut = CancelledAt(plan, c)
    /\ response = NoResponse
    /\ ret = results
    /\ res = [a \in Agents |-> IF results[a] = ErrorDict(a) THEN NoResult ELSE results[a]]
    /\ status = [a \in Agents |-> IF apc[a] = "idle" THEN "idle"
                                  ELSE IF apc[a] = "cancelled" THEN "running"
                                  ELSE IF results[a] = ErrorDict(a) THEN "error"
                                  ELSE "completed"]
    /\ ctx = [a \in Agents |-> EmptyMap]
    /\ writes = [a \in Agents |-> IF res[a] # NoResult THEN 1 ELSE 0]
    /\ redisUp = FALSE
    /\ flaps = 0
    /\ redis_client = "client"
    /\ use_redis = TRUE
    /\ redis = EmptyMap
    /\ in_memory_store = EmptyMap
    /\ expiry_times = EmptyMap
    /\ now = 0
    /\ written = {}
    /\ op = NoOp
    /\ ticks = 0
    /\ puts = 0
    /\ stored = EmptyMap
    /\ runs = 0
    /\ session_id = [a \in Agents |-> IF apc[a] = "idle" THEN NoSession ELSE SessionId]
    /\ calls = [r \in Requests |-> NoCall]
    /\ outputs = {}
    /\ loads = {}

NextAggregate == Aggregate

SpecAggregate == InitAggregate /\ [][NextAggregate]_vars

NextStore ==
    \/ ClientStoreContext
    \/ ClientGetContext
    \/ ClientGetFullContext
    \/ ClientGetAgentOutputs
    \/ ClientClearContext
    \/ ClientReturns
    \/ Tick
    \/ BackendChanges

SpecStore == InitStore /\ [][NextStore]_vars

(***************************************************************************)
(* Properties                                                              *)
(***************************************************************************)
ContextLoaded(a) == apc[a] \in {"process", "store", "returned"}
Written(key) == RedisKey(SessionId, key) \in written
SequentialOrder == Order("sequential")

\* C1: under the Sequential strategy (data_analyst, researcher, copywriter) the
\* context a worker loaded holds every entry the coordinator and the workers
\* before it wrote in the session, and no entry of a worker after it, whatever
\* backend the store is on.
C1_SequentialContextVisibility ==
    plan = "sequential" =>
        \A k \in 1..Len(SequentialOrder) :
            LET a == SequentialOrder[k] IN
            ContextLoaded(a) =>
                /\ Written(OriginalQueryKey) => "original_query" \in DOMAIN ctx[a]
                /\ Written(ExecutionModeKey) => "execution_mode" \in DOMAIN ctx[a]
                /\ \A j \in 1..(k - 1) :
                       Written(AgentOutputKey(SequentialOrder[j]))
                           => SequentialOrder[j] \in DOMAIN ctx[a]
                /\ \A j \in (k + 1)..Len(SequentialOrder) :
                       SequentialOrder[j] \notin DOMAIN ctx[a]

\* C2: when the call of worker i exceeds its deadline during Sequential
\* execution, no later worker of the order is invoked, the results carry the
\* error 'Agent execution timeout', and the request ends with status error.
C2_SequentialTimeoutHalts ==
    \A i \in 1..Len(SequentialOrder) :
        (plan = "sequential" /\ SequentialOrder[i] \in timedOut) =>
            /\ \A j \in (i + 1)..Len(SequentialOrder) : apc[SequentialOrder[j]] = "idle"
            /\ results_error = TimeoutText
            /\ cpc = "done" => response.status = "error"

C2_Witness ==
    /\ cpc = "done"
    /\ plan = "sequential"
    /\ "researcher" \in timedOut
    /\ results["data_analyst"].status = "completed"

\* C3: under every plan, a worker call that exceeded its deadline makes
\* process_request return status error, never completed.
C3_DeadlineMeansError ==
    (cpc = "done" /\ timedOut # {}) => response.status = "error"

\* C4: under the Parallel strategy copywriter is started only after the run
\* calls of data_analyst and researcher returned, and is never running together
\* with one of them.
C4_ParallelBarrier ==
    plan = "parallel" =>
        /\ apc[Stage2Agent] # "idle" => \A a \in Stage1 : apc[a] = "returned"
        /\ ~(status[Stage2Agent] = "running"
             /\ \E a \in Stage1 : status[a] = "running" \/ InFlight(a))

C4_Witness ==
    /\ plan = "parallel"
    /\ InFlight(Stage2Agent)
    /\ status[Stage2Agent] = "running"

\* C5: under the Parallel strategy the coordinator is past the join of stage 1
\* only when every stage-1 worker has returned or hit its own deadline.
C5_StageCompletesWhenAllDone ==
    (plan = "parallel" /\ cpc \in {"par2", "aggregate", "done"}) =>
        \A a \in Stage1 : apc[a] \in {"returned", "cancelled"}

\* C6: under the Parallel strategy, once a stage-1 worker timed out the stage is
\* failed and copywriter is never invoked.
C6_ParallelTimeoutSkipsStage2 ==
    (plan = "parallel" /\ timedOut \cap Stage1 # {}) =>
        /\ apc[Stage2Agent] = "idle"
        /\ results[Stage2Agent] = NoResult
        /\ results_error = TimeoutText
        /\ cpc \in {"aggregate", "done"}

C6_Witness ==
    /\ cpc = "done"
    /\ plan = "parallel"
    /\ timedOut \cap Stage1 # {}
    /\ response.status = "error"

\* C7: under the Parallel strategy neither stage-1 worker's loaded context
\* holds the output the other stage-1 worker wrote.
C7_Stage1Isolation ==
    plan = "parallel" =>
        \A a \in Stage1 : \A b \in Stage1 \ {a} : b \notin DOMAIN ctx[a]

\* C8: under the Parallel strategy, when both stage-1 workers completed, the
\* context copywriter loaded holds the outputs both of them wrote, whatever
\* backend the store is on.
C8_Stage2SeesUnion ==
    (plan = "parallel" /\ ContextLoaded(Stage2Agent)) =>
        \A a \in Stage1 :
            (ret[a].status = "completed" /\ Written(AgentOutputKey(a)))
                => a \in DOMAIN ctx[Stage2Agent]

\* C9: no exception escapes process_request; whatever it is given, it returns a
\* result with a status.
C9_NoEscapingException ==
    /\ cpc # "raised"
    /\ cpc = "done" => response.status \in {"completed", "error", "running"}

\* C10: a request whose supplied strategy is not sequential, parallel or
\* dynamic runs no worker, writes no context entry and leaves no result behind.
InvalidStrategySupplied ==
    \/ via = "http" /\ request_mode # NoMode /\ Lower(request_mode) \notin ExecutionModes
    \/ via = "direct" /\ mode_arg # NoneArg /\ mode_arg.kind # "enum"

C10_InvalidStrategyRejected ==
    InvalidStrategySupplied =>
        /\ \A a \in Agents : apc[a] = "idle" /\ status[a] = "idle"
        /\ written = {}
        /\ DOMAIN redis = {}
        /\ DOMAIN in_memory_store = {}
        /\ plan = "none"
        /\ response = NoResponse

C10_Witness ==
    /\ InvalidStrategySupplied
    /\ cpc \in {"raised", "http400"}

\* C11: any error raised in the coordinator's own logic (a malformed strategy,
\* a failing step outside the workers) ends the call with a result of status
\* error that carries the original query and the session id.
CoordinatorLevelError ==
    /\ via = "direct"
    /\ \/ Truthy(mode_arg) /\ ~HasValueAttr(mode_arg)
       \/ ~IsStr(query) /\ ~Truthy(mode_arg)
       \/ ~IsStr(query) /\ mode_arg = EnumArg("dynamic")

C11_CoordinatorErrorBecomesResult ==
    (CoordinatorLevelError /\ cpc \in {"raised", "done"}) =>
        /\ response.kind = "error"
        /\ response.status = "error"
        /\ response.query = query
        /\ response.session_id = SessionId

\* C12: every result process_request returns, on success and on every error
\* path, has the fields session id, status, query, execution summary, worker
\* result map, consolidated insights, final report, executive summary, key
\* findings and recommendations.
RequiredFields ==
    {"session_id", "status", "query", "execution_summary", "agent_results",
     "consolidated_insights", "final_report", "executive_summary", "key_findings",
     "recommendations"}

C12_ResultHasAllFields ==
    cpc = "done" => RequiredFields \subseteq response.fields

\* C13: the aggregated status is error if the run recorded a hard error (a
\* timeout or a raised exception, whatever its text) or a worker result has
\* status error; else running if a worker result has status running; else
\* completed.
HardErrorRecorded == results_error # Absent

C13_AggregatedStatusRule ==
    (cpc = "done" /\ response.kind = "aggregated") =>
        response.status =
            IF HardErrorRecorded \/ \E a \in Agents : results[a].status = "error"
            THEN "error"
            ELSE IF \E a \in Agents : results[a].status = "running"
                 THEN "running"
                 ELSE "completed"

\* C14: whenever process_request returns with status completed its final
\* report is non-empty; if the copywriter's final_report is empty or absent the
\* report returned is the fallback, which holds the other workers' insights
\* and recommendations.
CopywriterReportMissing ==
    Get(ResultOf(results, "copywriter"), "final_report", EmptyText) = EmptyText

Holds(text, line) == \E i \in 1..Len(text) : text[i] = line

C14_CompletedHasReport ==
    (cpc = "done" /\ response.status = "completed") =>
        /\ Len(response.final_report) > 0
        /\ CopywriterReportMissing =>
              \A a \in Stage1 : results[a].status = "completed" =>
                  /\ Holds(response.final_report, results[a].insights[1])
                  /\ Holds(response.final_report, results[a].recommendations[1])

C14_Witness ==
    /\ cpc = "done"
    /\ response.status = "completed"
    /\ CopywriterReportMissing
    /\ results["copywriter"].status = "completed"
    /\ Holds(response.final_report, "## Strategic Recommendations")

\* C15: the inferred strategy depends on the query text alone: parallel when
\* the lower-cased query contains quick, summary, brief or overview, sequential
\* in every other case; brevity wins over depth; never dynamic.
StrategyInferred ==
    /\ ~Truthy(mode_arg)
    /\ cpc \notin {"http", "http400", "start", "raised"}

HasBrevityCue(q) == \E w \in q : Lower(w) \in {"quick", "summary", "brief", "overview"}

C15_InferenceByBrevityCue ==
    StrategyInferred =>
        /\ HasBrevityCue(query) => execution_mode = EnumArg("parallel")
        /\ ~HasBrevityCue(query) => execution_mode = EnumArg("sequential")
        /\ execution_mode # EnumArg("dynamic")

C15_Witness ==
    /\ StrategyInferred
    /\ query = {"QUICK", "detailed"}
    /\ execution_mode = EnumArg("parallel")

\* C16: the Dynamic strategy delegates by positional precedence: a data keyword
\* gives the sequential plan in the order data_analyst, researcher, copywriter;
\* else a context keyword gives the order researcher, data_analyst,
\* copywriter; else the parallel plan; a query with both takes the first.
DynamicDispatched ==
    /\ execution_mode = EnumArg("dynamic")
    /\ plan # "none"

HasWordIn(q, keywords) == \E w \in q : Lower(w) \in keywords

StartedInOrder(order) ==
    \A i, j \in 1..Len(order) : (i < j /\ apc[order[j]] # "idle") => apc[order[i]] # "idle"

C16_DynamicDelegates ==
    DynamicDispatched =>
        IF HasWordIn(query, {"data", "statistics", "numbers", "kpi", "metrics"})
        THEN /\ plan = "sequential"
             /\ StartedInOrder(<<"data_analyst", "researcher", "copywriter">>)
        ELSE IF HasWordIn(query, {"market", "trends", "research", "analysis", "industry"})
             THEN /\ plan = "research_first"
                  /\ StartedInOrder(<<"researcher", "data_analyst", "copywriter">>)
             ELSE /\ plan = "parallel"
                  /\ \A a \in Stage1 : apc[Stage2Agent] # "idle" => apc[a] # "idle"

C16_Witness ==
    /\ DynamicDispatched
    /\ query = {"data", "market"}
    /\ plan = "sequential"
    /\ apc["researcher"] # "idle"

(***************************************************************************)
(* Properties of the store                                                 *)
(***************************************************************************)
\* when an entry put with this time and ttl expires
ExpiryOf(e) == e.at + (IF e.ttl = 0 THEN default_ttl ELSE e.ttl)

\* the last successful put of the key was not cleared and its ttl has not elapsed
Live(k) == k \in DOMAIN stored /\ now < ExpiryOf(stored[k])

\* C17: a get after a successful put of the same session and key returns the
\* value that was put, unchanged, as long as its ttl has not elapsed and the key
\* was neither cleared nor overwritten since.
C17_PutGetRoundTrip ==
    op.name = "get_context" =>
        (Live(RedisKey(op.sid, op.key)) => op.result = stored[RedisKey(op.sid, op.key)].value)

\* C18: no read (get_context, get_full_context, get_agent_outputs) returns an
\* entry whose ttl has elapsed, whether or not the in-process backend still
\* holds it.
C18_NoExpiredRead ==
    /\ op.name = "get_context" =>
          (op.result # PyNone => Live(RedisKey(op.sid, op.key)))
    /\ op.name = "get_full_context" =>
          \A l \in DOMAIN op.result :
              \E k \in DOMAIN stored : MatchesSession(k, op.sid) /\ Last(k) = l /\ Live(k)
    /\ op.name = "get_agent_outputs" =>
          \A n \in DOMAIN op.result :
              \E k \in DOMAIN stored : MatchesAgentOutput(k, op.sid) /\ Last(k) = n /\ Live(k)

C18_Witness ==
    /\ op.name = "get_context"
    /\ op.held
    /\ RedisKey(op.sid, op.key) \in DOMAIN stored
    /\ ~Live(RedisKey(op.sid, op.key))
    /\ op.result = PyNone

\* C19: a successful put on a (session, key) leaves one entry for it in the
\* backend it wrote to, holding the new value and expiring at now plus the ttl
\* of this put (3600 s when none is given), whatever was there before.
C19_PutReplacesAndResetsExpiry ==
    (op.name = "store_context" /\ op.result) =>
        LET k == RedisKey(op.sid, op.key)
            expiry == now + (IF op.ttl = 0 THEN default_ttl ELSE op.ttl)
        IN  IF use_redis /\ redis_client = "client"
            THEN /\ k \in DOMAIN redis
                 /\ redis[k].json = JsonDumps(op.data)
                 /\ redis[k].expires = expiry
            ELSE /\ k \in DOMAIN in_memory_store
                 /\ in_memory_store[k] = op.data
                 /\ expiry_times[k] = expiry

C19_Witness ==
    /\ op.name = "store_context"
    /\ op.result
    /\ op.held
    /\ op.previous.value # op.data
    /\ ExpiryOf(op.previous) > now + (IF op.ttl = 0 THEN default_ttl ELSE op.ttl)

\* C20: get_agent_outputs of a session returns one entry per worker name for
\* exactly the worker outputs put for that session whose ttl has not elapsed,
\* and nothing of another session or outside the worker-output prefix.
C20_AgentOutputsExact ==
    op.name = "get_agent_outputs" =>
        DOMAIN op.result =
            {Last(k) : k \in {x \in DOMAIN stored : MatchesAgentOutput(x, op.sid) /\ Live(x)}}

\* C21: get_full_context of a session returns every entry of the session whose
\* ttl has not elapsed and nothing else, each under its local key: the key as
\* written, the session prefix stripped.
LocalKey(k) == SubSeq(k, 3, Len(k))

C21_FullContextByLocalKey ==
    op.name = "get_full_context" =>
        LET live == {k \in DOMAIN stored : MatchesSession(k, op.sid) /\ Live(k)}
        IN  /\ \A k \in live : \E l \in DOMAIN op.result : <<l>> = LocalKey(k)
            /\ \A l \in DOMAIN op.result : \E k \in live : <<l>> = LocalKey(k)

\* C22: on both backends clear_context of a session returns ok and then no
\* entry of that session is readable, whatever ttl it had left, while what is
\* readable of every other session is as before; only a backend error makes it
\* return fail.
ClearReturned == op'.name = "clear_context"

C23_DowngradeIsPermanent == [][~use_redis => ~use_redis']_vars

\* C24: a store on the in-process fallback returns, for every sequence of
\* store_context, get_context, get_full_context, get_agent_outputs and
\* clear_context calls, what a store on a healthy networked backend returns
\* (JSON-representable values, same clock).
\* what a healthy networked backend holds after the same calls
HeldByHealthyBackend(k) == Live(k) /\ ~stored[k].cleared

C24_BackendsInterchangeable ==
    redis_client = "none" =>
        /\ op.name \in {"store_context", "clear_context"} => op.result
        /\ op.name = "get_context" =>
              LET k == RedisKey(op.sid, op.key)
              IN  IF HeldByHealthyBackend(k)
                  THEN stored[k].value.py = "dict" => op.result = stored[k].value
                  ELSE op.result = PyNone
        /\ op.name = "get_full_context" =>
              DOMAIN op.result =
                  {Last(k) : k \in {x \in DOMAIN stored :
                                       MatchesSession(x, op.sid) /\ HeldByHealthyBackend(x)}}
        /\ op.name = "get_agent_outputs" =>
              DOMAIN op.result =
                  {Last(k) : k \in {x \in DOMAIN stored :
                                       MatchesAgentOutput(x, op.sid) /\ HeldByHealthyBackend(x)}}

\* C25: no operation of the store lets an exception out: on a serialization or
\* backend error store_context and clear_context return False, get_context
\* returns None, get_full_context and get_agent_outputs return an empty mapping.
C25_StoreNeverRaises ==
    op.name # "none" =>
        /\ ~op.raised
        /\ op.failed =>
              /\ op.name \in {"store_context", "clear_context"} => op.result = FALSE
              /\ op.name = "get_context" => op.result = PyNone
              /\ op.name \in {"get_full_context", "get_agent_outputs"} => op.result = EmptyMap

C25_Witness ==
    /\ op.name = "store_context"
    /\ op.failed
    /\ ~Serializable(op.data)
    /\ redisUp
    /\ op.result = FALSE

(***************************************************************************)
(* BaseAgent.run as its caller sees it                                     *)
(***************************************************************************)
\* process raised, or caught its own failure and returned an error dict
ProcessFailed(a) == res[a] = NoResult \/ res[a].status = "error"

\* the store_context call of this run returned False (within a request each
\* agent runs once, so its key is in written exactly when its call succeeded)
StoreCallFailed(a) ==
    /\ writes[a] = 1
    /\ <<"session", SessionId, "agent_output", a>> \notin written

\* C26 as stated: no exception leaves run, and whenever process or a store call
\* inside run failed, run returned a result record with status error and an
\* error description.
C26_ErrorOnAnyInternalFailure ==
    \A a \in Agents :
        /\ apc[a] # "escaped"
        /\ apc[a] = "returned" =>
              /\ ret[a].agent = a
              /\ ProcessFailed(a) \/ StoreCallFailed(a) =>
                    ret[a].status = "error" /\ "error" \in DOMAIN ret[a]

\* C26 amended: no exception leaves run and every returned run yields a result
\* record of its agent with status completed or error; a failure of process
\* yields status error with an error description, while a store call that fails
\* is not a failure of run: the result of process is returned unchanged.
C26_RunAlwaysReturnsResult ==
    \A a \in Agents :
        /\ apc[a] # "escaped"
        /\ apc[a] = "returned" =>
              /\ ret[a].agent = a
              /\ ret[a].status \in {"completed", "error"}
              /\ ProcessFailed(a) => ret[a].status = "error" /\ "error" \in DOMAIN ret[a]
              /\ res[a] # NoResult => ret[a] = res[a]

C26_Witness ==
    \E a, b \in Agents :
        /\ apc[a] = "returned" /\ res[a] = NoResult /\ ret[a].status = "error"
        /\ apc[b] = "returned" /\ StoreCallFailed(b) /\ ret[b].status = "completed"

\* C27: during one run call the status of an agent that has become error is
\* never set to completed, and when run returns the agent's status is the
\* status of the result it returns.
C27_StatusNeverReverts ==
    [][\A a \in Agents :
          /\ status[a] = "error" /\ InFlight(a) => status'[a] # "completed"
          /\ apc'[a] = "returned" => status'[a] = ret'[a].status]_vars

C29_TimeoutBecomesFailedResult ==
    cpc = "done" =>
        /\ \A a \in timedOut :
              results[a].status = "error" /\ "error" \in DOMAIN results[a]
        /\ plan = "parallel" /\ timedOut \cap Stage1 # {} => apc[Stage2Agent] = "idle"

\* the networked backend was connected before the request and unreachable
\* throughout it: every store_context returned False, every read nothing
StoreLost == redis_client = "client" /\ flaps = 0 /\ ~redisUp

\* what each agent's process produced, for the agents whose result was collected
Outcomes ==
    [a \in Agents |-> IF results[a] = NoResult THEN NoResult
                      ELSE IF res[a] = NoResult THEN ErrorDict(a)
                      ELSE res[a]]

\* C30: when every store operation of a request fails, a request with a plan
\* still ends with an aggregated response; with no deadline expired every
\* agent of the plan has run and been collected, and the top-level status is
\* that of the agents' process outcomes and the recorded deadline error.
C30_StoreLossDoesNotFailPipeline ==
    StoreLost /\ cpc = "done" /\ plan # "none" =>
        /\ written = {}
        /\ response.kind = "aggregated"
        /\ timedOut = {} => \A a \in Agents : apc[a] = "returned" /\ results[a] = ret[a]
        /\ results = Outcomes
        /\ response.status = GlobalStatus(Outcomes, results_error)

C30_Witness ==
    /\ StoreLost /\ cpc = "done" /\ plan # "none"
    /\ timedOut = {}
    /\ \A a \in Agents : writes[a] = 1 /\ StoreCallFailed(a)
    /\ response.status = "completed"

\* C31: a POST /analyze request whose execution_mode is a string other than
\* sequential, parallel or dynamic in any letter case is answered with HTTP 400
\* "Invalid execution mode ..." and process_request is never called for it.
C31_InvalidModeAnswers400 ==
    via = "http" /\ request_mode # NoMode /\ Lower(request_mode) \notin ExecutionModes =>
        /\ cpc \in {"http", "http400"}
        /\ execution_mode = NoneArg

\* C32: in a plan that runs the workers one after the other, a worker is
\* started only when the run call of the worker before it has returned and its
\* result, whatever its status, has been collected; a returned result with
\* status error does not end the plan (with no deadline expired every worker has
\* run when the request is done); a deadline expiry ends it: an error is
\* recorded in the results and the workers after it are never invoked.  In the
\* staged plan the same holds for stage 2 after stage 1.
SequencePlan == plan \in {"sequential", "research_first"}

InsightsOfCompleted(a) ==
    IF results[a].status = "completed" THEN results[a].insights ELSE << >>

C33_ConsolidatedInsights ==
    cpc = "done" /\ response.kind = "aggregated" =>
        LET all == Tagged("chart", InsightsOfCompleted("data_analyst"))
                       \o Tagged("magnifier", InsightsOfCompleted("researcher"))
        IN  /\ Len(response.consolidated_insights) <= 10
            /\ Len(response.consolidated_insights) = IF Len(all) < 10 THEN Len(all) ELSE 10
            /\ \A i \in 1..Len(response.consolidated_insights) :
                  response.consolidated_insights[i] = all[i]

C33_Witness ==
    /\ cpc = "done" /\ response.kind = "aggregated"
    /\ \A a \in Stage1 : results[a].status = "completed"
    /\ \A a \in Stage1 : Len(results[a].insights) = max_insights
    /\ Len(response.consolidated_insights) = 10
    /\ response.consolidated_insights[8][1] = "chart"
    /\ response.consolidated_insights[9][1] = "magnifier"

ExecutionModeEntry ==
    LET k == RedisKey(SessionId, ExecutionModeKey)
    IN  IF k \in DOMAIN in_memory_store THEN in_memory_store[k]
        ELSE IF k \in DOMAIN redis THEN JsonLoads(redis[k].json)
        ELSE PyNone

C35_ReportedModeIsSelected ==
    cpc = "done" /\ response.kind = "aggregated" =>
        /\ response.mode = execution_mode.value
        /\ RedisKey(SessionId, ExecutionModeKey) \in written =>
              ExecutionModeEntry = PyStr(execution_mode.value)

\* C36: every process_request call with a query and a strategy it accepts
\* eventually returns a result, whatever the workers do (return completed,
\* return an error, raise, or hang until the deadline) and whatever the store
\* answers.
ValidCall ==
    /\ IsStr(query)
    /\ mode_arg = NoneArg \/ mode_arg.kind = "enum"

C36_RequestTerminates ==
    (cpc = "start" /\ ValidCall) ~> (cpc = "done" /\ response.kind \in {"aggregated", "error"})

C36_Witness ==
    /\ ValidCall /\ cpc = "done" /\ response.kind = "aggregated"
    /\ timedOut # {}
    /\ \E a \in Agents : apc[a] = "returned" /\ ret[a].status = "error"

\* C37: with two requests running at the same time on the same agent objects,
\* every agent output is written under the session id of the request whose run
\* call produced it, and every run call loads the context of its own request's
\* session.
C37_SessionsStayApart ==
    /\ \A o \in outputs : o.session = SessionOf(o.request)
    /\ \A l \in loads : l.session = SessionOf(l.request)

\* C38: once the request is done and no run call is in flight any more, no
\* agent is left with status running: every call that set the status to
\* running, a call ended by its deadline included, has set it to completed or
\* error.
C38_NoWorkerLeftRunning ==
    (cpc = "done" /\ \A a \in Agents : ~InFlight(a)) =>
        \A a \in Agents : status[a] # "running"

\* C39: a get of an entry whose put returned True, whose ttl has not elapsed and
\* which no clear_context call or later put has touched, returns a value and not
\* None, whatever the networked backend did between the put and the get.
C39_PutStaysReadable ==
    op.name = "get_context" =>
        LET k == RedisKey(op.sid, op.key)
        IN  (Live(k) /\ ~stored[k].cleared) => op.result # PyNone

====
